---- MODULE Spec2Model ----
(***************************************************************************)
(* Thread / message persistence and the send-message turn of the chat      *)
(* backend.  Two deployments share the data model: the layered one         *)
(* (src/app: routers -> services -> repositories) and the flat one         *)
(* (src/routes, src/services).  Every request handler is cut at its await  *)
(* points: one action is "the pending store operation executes, then the   *)
(* handler runs up to the next await".  A timestamp is read by the handler *)
(* (datetime.utcnow()) before the store operation that carries it is       *)
(* awaited, so it travels in the call record until that operation runs.    *)
(***************************************************************************)
EXTENDS Integers, Sequences, FiniteSets, TLC

VARIABLES variant, clock, threads, messages, served, calls, q

vars == <<variant, clock, threads, messages, served, calls, q>>

(* ------------------------------ bounds -------------------------------- *)
MaxClock == 1          \* last value of the wall clock
TicksPerSec == 2       \* clock values per second (stands for 1,000,000)
MaxRnd == 2            \* distinct values of os.urandom(4).hex()
MaxRequests == 4       \* requests served in one behaviour, layered deployment
MaxFlatRequests == 2   \* requests served in one behaviour, flat deployment
MaxQMsgs == 3          \* messages of the query specification's stores
MaxQClock == 2         \* createdAt values of the query specification
MaxLimit == 2          \* largest limit / page size queried

(* settings.max_history_messages, MAX_HISTORY_MESSAGES in the environment *)
max_history_messages == 2

(* The requests in flight at once: two workers of the web framework.     *)
Procs == {"w1", "w2"}
Times == 0..MaxClock

Min(a, b) == IF a <= b THEN a ELSE b

(* --------------------------- clock formats ---------------------------- *)
(* strftime('%Y%m%d_%H%M%S'): the time truncated to the second.           *)
strftime(t) == t \div TicksPerSec

(* datetime.microsecond: the sub-second part.                             *)
microsecond(t) == t % TicksPerSec

(* isoformat(): the full-precision timestamp as a string.  The strings    *)
(* are fixed-width up to an optional ".ffffff" suffix, so they compare    *)
(* as the instants do; the instant stands for the string.                 *)
isoformat(t) == t

(* ------------------------------- ids ---------------------------------- *)
NoId == <<"none">>
MissingTid == <<"thread", MaxClock + 1, 0>>

(* ThreadService.create_thread: two clock reads, second then microsecond *)
AppThreadId(t1, t2) == <<"thread", strftime(t1), microsecond(t2)>>

(* flat create_thread: second of the clock and 4 random bytes            *)
FlatThreadId(t, r) == <<"thread", strftime(t), r>>

(* ChatService.send_message: both ids from the single read `now`         *)
AppUserId(now) == <<"msg", strftime(now), "user", microsecond(now)>>

AppAssistantId(now) == <<"msg", strftime(now), "assistant", microsecond(now) + 1>>

(* flat send_message: second of the clock, role and 4 random bytes       *)
FlatMsgId(t, role, r) == <<"msg", strftime(t), role, r>>

(* flat create_thread / ChatService.create_welcome_message                *)
WelcomeId(tid, t) == <<"welcome", tid, strftime(t)>>

(* ------------------------------ store --------------------------------- *)
(* create_indexes runs in the layered application's lifespan only: the   *)
(* unique index on "id" exists in the layered deployment.                *)
UniqueIdIndex == variant = "app"

ThreadDoc(oid, id, title, created, updated) ==
    [oid |-> oid, id |-> id, title |-> title, createdAt |-> created, updatedAt |-> updated]

(* A message document; its content is payload and is left out.           *)
MessageDoc(oid, id, tid, role, created, meta) ==
    [oid |-> oid, id |-> id, threadId |-> tid, role |-> role,
     createdAt |-> created, meta |-> meta]

(* find({"threadId": tid})                                                *)
ThreadMessages(msgs, tid) == {m \in msgs : m.threadId = tid}

(* find_one({"id": tid}) on threads: the matching documents              *)
FindThread(ths, tid) == {t \in ths : t.id = tid}

(* insert_one raises DuplicateKeyError when the unique index has the id  *)
InsertAllowed(coll, id) == ~UniqueIdIndex \/ \A d \in coll : d.id # id

(* count_documents({"threadId": tid})                                     *)
count_messages(msgs, tid) == Cardinality(ThreadMessages(msgs, tid))

(* delete_many with an empty filter                                       *)
delete_messages_All(msgs, tid) == {}

(* delete_many({"threadId": tid})                                         *)
delete_messages(msgs, tid) == msgs \ ThreadMessages(msgs, tid)

(* ------------------------------ sorting ------------------------------- *)
Reverse(s) == [i \in 1..Len(s) |-> s[Len(s) + 1 - i]]

(* All enumerations of the finite set S as a sequence.                   *)
Perms(S) ==
    {s \in [1..Cardinality(S) -> S] : \A i, j \in 1..Cardinality(S) : i # j => s[i] # s[j]}

(* cursor.sort("createdAt", dir): every order of S that respects the     *)
(* key; the store leaves the order of documents with equal keys open.    *)
SortByCreatedAt(S, dir) ==
    {s \in Perms(S) : \A i \in 1..(Len(s) - 1) :
        IF dir = 1 THEN s[i].createdAt <= s[i + 1].createdAt
                   ELSE s[i].createdAt >= s[i + 1].createdAt}

(* cursor.skip(skip).limit(limit) applied to a sorted result             *)
SkipLimit(s, skip, limit) == SubSeq(s, skip + 1, Min(skip + limit, Len(s)))

(* get_messages with the sort descending                                  *)
get_messages_Newest(msgs, tid, skip, limit) ==
    {SkipLimit(s, skip, limit) : s \in SortByCreatedAt(ThreadMessages(msgs, tid), -1)}

(* MessageRepository.get_messages: ascending, then skip and limit        *)
get_messages(msgs, tid, skip, limit) ==
    {SkipLimit(s, skip, limit) : s \in SortByCreatedAt(ThreadMessages(msgs, tid), 1)}

(* get_history without the limit: every message of the thread            *)
get_history_Unbounded(msgs, tid, limit) ==
    {Reverse(s) : s \in SortByCreatedAt(ThreadMessages(msgs, tid), -1)}

(* get_history with the sort ascending: the oldest messages, reversed    *)
get_history_Oldest(msgs, tid, limit) ==
    {Reverse(SkipLimit(s, 0, limit)) : s \in SortByCreatedAt(ThreadMessages(msgs, tid), 1)}

(* MessageRepository.get_history: newest first, limit, then reversed     *)
get_history(msgs, tid, limit) ==
    {Reverse(SkipLimit(s, 0, limit)) : s \in SortByCreatedAt(ThreadMessages(msgs, tid), -1)}

(* MessageOut(id, role, content, createdAt) built from a document         *)
MessageOut(m) == [id |-> m.id, role |-> m.role, createdAt |-> m.createdAt]

(* MessageRepository.get_messages_with_pagination: the page of           *)
(* get_messages, each document converted to MessageOut                   *)
get_messages_with_pagination(msgs, tid, skip, limit) ==
    {[i \in 1..Len(s) |-> MessageOut(s[i])] : s \in get_messages(msgs, tid, skip, limit)}

(* MessageService.get_conversation_history, past its existence check:    *)
(* the page (skip 0, limit) of get_messages_with_pagination              *)
get_conversation_history(msgs, tid, limit) == get_messages_with_pagination(msgs, tid, 0, limit)

(* cursor.sort("updatedAt", -1) on threads: every order that respects    *)
(* the key, newest first                                                  *)
SortByUpdatedAt(S) ==
    {s \in Perms(S) : \A i \in 1..(Len(s) - 1) : s[i].updatedAt >= s[i + 1].updatedAt}

(* ThreadRepository.get_threads (and the flat get_all_threads query):    *)
(* newest-updated first, then skip and limit                              *)
get_threads(ths, skip, limit) == {SkipLimit(s, skip, limit) : s \in SortByUpdatedAt(ths)}

(* ---------------------------- AI responder ---------------------------- *)
(* What the provider does on one call: "ok" a well-formed reply,          *)
(* "no_key" no credential configured, "transport" the connection fails,   *)
(* "status" a non-success HTTP status, "malformed" an unusable body.      *)
AIOutcomes == {"ok", "no_key", "transport", "status", "malformed"}

NoAI == [raised |-> FALSE, model |-> "none", content |-> "none", total_tokens |-> 0]

AIReply(model, content, total) ==
    [raised |-> FALSE, model |-> model, content |-> content, total_tokens |-> total]

(* The words of the request's content and of the texts the services      *)
(* build, as str.split() returns them; "" is the empty text.             *)
UserWords == <<"hi">>

Words(content) ==
    IF content = "" THEN <<>>
    ELSE IF content = "mock" THEN <<"received">> \o UserWords \o <<"mock", "mode">>
    ELSE IF content = "apology" THEN <<"sorry", "error", "mock", "mode">>
    ELSE <<"reply">>

(* usage of a mock reply: total_tokens = len(content.split()) +          *)
(* len(ai_content.split())                                               *)
WordCountUsage(content) == Len(UserWords) + Len(Words(content))

(* _mock_response answering with the empty text                          *)
mock_response_Empty(error) == AIReply("mock", "", WordCountUsage(""))

(* AIService._mock_response: the mock text, or the apology with the error *)
mock_response(error) ==
    LET ai_content == IF error THEN "apology" ELSE "mock" IN
    AIReply("mock", ai_content, WordCountUsage(ai_content))

(* AIService._extract_usage without provider metadata: twice the words   *)
(* of the reply                                                           *)
extract_usage(content) == Len(Words(content)) * 2

(* process_message without its except clause: a failing chain raises     *)
AppProcessMessage_Propagates(o) ==
    IF o = "no_key" THEN mock_response(FALSE)
    ELSE IF o = "ok" THEN AIReply("provider", "reply", extract_usage("reply"))
    ELSE [raised |-> TRUE, model |-> "none", content |-> "none", total_tokens |-> 0]

(* layered AIService.process_message: mock without a model, the chain's  *)
(* reply, and every exception of the chain caught into _mock_response    *)
AppProcessMessage(o) ==
    IF o = "no_key" THEN mock_response(FALSE)
    ELSE IF o = "ok" THEN AIReply("provider", "reply", extract_usage("reply"))
    ELSE mock_response(TRUE)

(* flat AIService.process_message: mock without a key, the reply on 200  *)
(* with candidates, model "error" on every other status, body or raise   *)
FlatProcessMessage(o) ==
    IF o = "no_key" THEN AIReply("mock", "mock", WordCountUsage("mock"))
    ELSE IF o = "ok" THEN AIReply("provider", "reply", 0)
    ELSE AIReply("error", "apology", 0)

(* ------------------------------- calls -------------------------------- *)
IdleCall ==
    [op |-> "none", pc |-> "idle", rid |-> 0, tid |-> NoId, title |-> "none", status |-> 0,
     uid |-> NoId, aid |-> NoId, hist |-> <<>>, ai |-> NoAI,
     ts |-> 0, ts2 |-> 0, utime |-> -1, atime |-> -1,
     dbErr |-> FALSE, ovl |-> FALSE, ex0 |-> FALSE, n0 |-> 0]

InFlight(c) == c.pc \notin {"idle", "done"}

(* A request is taken while fewer than the bound were served.            *)
Room == served < (IF variant = "flat" THEN MaxFlatRequests ELSE MaxRequests)

(* Ids a client names in a request: those of stored threads, and one of  *)
(* no thread.                                                             *)
KnownTids == {t.id : t \in threads} \cup {MissingTid}

(* The request c starts in process p.  Book-keeping for the properties:  *)
(* rid numbers the requests; ovl marks a request when another request on *)
(* the same thread id is in flight between its start and the moment its  *)
(* process takes the next request; ex0 and n0 record whether the thread  *)
(* was stored and how many messages it had when the request started.     *)
Begin(p, c) ==
    /\ served' = served + 1
    /\ calls' = [r \in Procs |->
        IF r = p
        THEN [c EXCEPT !.rid = served + 1,
                       !.ovl = \E r2 \in Procs \ {p} :
                                   InFlight(calls[r2]) /\ calls[r2].tid = c.tid,
                       !.ex0 = FindThread(threads, c.tid) # {},
                       !.n0 = count_messages(messages, c.tid)]
        ELSE IF calls[r].pc # "idle" /\ InFlight(c) /\ calls[r].tid = c.tid
             THEN [calls[r] EXCEPT !.ovl = TRUE]
             ELSE calls[r]]

Step(p, c) == calls' = [calls EXCEPT ![p] = c]

(* The handler returns or raises: the route boundary's status.           *)
Finish(c, status) ==
    [c EXCEPT !.pc = "done", !.status = status, !.title = "none", !.hist = <<>>,
              !.ts = 0, !.ts2 = 0]

(* A store operation raises: the route boundary answers 500.             *)
Raise(c) == [Finish(c, 500) EXCEPT !.dbErr = TRUE]

(* update_one whose $set carries the epoch instead of the clock read     *)
UpdateOne_Epoch(ths, tid, now, title) ==
    IF FindThread(ths, tid) = {} THEN {ths}
    ELSE {(ths \ {t}) \cup {[t EXCEPT !.updatedAt = isoformat(0),
                                      !.title = IF title = "none" THEN @ ELSE title]} :
            t \in FindThread(ths, tid)}

(* update_one whose $set always carries a title                          *)
UpdateOne_Retitle(ths, tid, now, title) ==
    IF FindThread(ths, tid) = {} THEN {ths}
    ELSE {(ths \ {t}) \cup {[t EXCEPT !.updatedAt = isoformat(now), !.title = "b"]} :
            t \in FindThread(ths, tid)}

(* update_one whose $set carries the title only, never updatedAt         *)
UpdateOne_NoTouch(ths, tid, now, title) ==
    IF FindThread(ths, tid) = {} THEN {ths}
    ELSE {(ths \ {t}) \cup {[t EXCEPT !.title = IF title = "none" THEN @ ELSE title]} :
            t \in FindThread(ths, tid)}

(* update_one({"id": tid}, {"$set": ...}): the collections it can leave, *)
(* one matching document updated (title "none": the timestamp only).     *)
UpdateOne(ths, tid, now, title) ==
    IF FindThread(ths, tid) = {} THEN {ths}
    ELSE {(ths \ {t}) \cup {[t EXCEPT !.updatedAt = isoformat(now),
                                      !.title = IF title = "none" THEN @ ELSE title]} :
            t \in FindThread(ths, tid)}

(* ThreadRepository.update_thread(tid, title) with the clock read `now`: *)
(* the collection it leaves and its result matched_count > 0             *)
update_thread(ths, tid, now, title) ==
    {[threads |-> x, matched |-> FindThread(ths, tid) # {}] : x \in UpdateOne(ths, tid, now, title)}

(* delete_one({"id": tid}): one matching document removed                *)
DeleteOne(ths, tid) ==
    IF FindThread(ths, tid) = {} THEN {ths}
    ELSE {ths \ {t} : t \in FindThread(ths, tid)}

NoQuery == [op |-> "none", tid |-> NoId, limit |-> 0, status |-> 0, out |-> <<>>,
            p1 |-> <<>>, p2 |-> <<>>, matched |-> FALSE, arg |-> <<>>, ai |-> NoAI]

Init ==
    /\ variant \in {"app", "flat"}
    /\ clock = 0
    /\ threads = {}
    /\ messages = {}
    /\ served = 0
    /\ calls = [p \in Procs |-> IdleCall]
    /\ q = NoQuery

(* ----------------------- layered: POST /threads ----------------------- *)
(* positional parameters MessageRepository.create_message requires       *)
CreateMessageRequired == 4

(* positional arguments ThreadService._create_welcome_message passes     *)
AppWelcomeArgs == 1

(* ThreadService._create_welcome_message after the dictionary is built   *)
(* at time t: the call create_message(welcome_message) binds its         *)
(* arguments or raises TypeError, which the router turns into 500.       *)
AppCreateWelcome(c, t) ==
    IF AppWelcomeArgs >= CreateMessageRequired
    THEN [c EXCEPT !.pc = "ins_welcome", !.ts = t,
                   !.uid = <<"msg", strftime(t), "welcome", microsecond(t)>>]
    ELSE Finish(c, 500)

(* router create_thread -> ThreadService.create_thread: the id from two  *)
(* clock reads, then ThreadRepository.create_thread reads `now` for both *)
(* timestamps and awaits the insert.                                      *)
AppCreateThreadStart(p) ==
    /\ variant = "app"
    /\ calls[p].pc = "idle"
    /\ Room
    /\ \E t1 \in clock..MaxClock : \E t2 \in t1..MaxClock : \E now \in t2..MaxClock :
          /\ clock' = now
          /\ Begin(p, [IdleCall EXCEPT !.op = "create", !.pc = "ins_thread",
                                       !.tid = AppThreadId(t1, t2), !.title = "a",
                                       !.ts = now, !.ts2 = now])
    /\ UNCHANGED <<variant, threads, messages, q>>

(* threads.insert_one executes (or the store rejects it); the service    *)
(* goes on to the welcome message.                                        *)
AppCreateThreadInsert(p) ==
    /\ variant = "app"
    /\ calls[p].op = "create"
    /\ calls[p].pc = "ins_thread"
    /\ LET c == calls[p] IN
          \/ /\ Step(p, Raise(c))
             /\ UNCHANGED <<clock, threads>>
          \/ /\ InsertAllowed(threads, c.tid)
             /\ threads' = threads \cup
                   {ThreadDoc(<<c.rid, "thread">>, c.tid, c.title, isoformat(c.ts), isoformat(c.ts2))}
             /\ \E t \in clock..MaxClock :
                   /\ clock' = t
                   /\ Step(p, AppCreateWelcome(c, t))
    /\ UNCHANGED <<variant, messages, served, q>>

(* ------------------------ flat: POST /threads ------------------------- *)
(* create_thread: the id from the clock and random bytes; createdAt and  *)
(* updatedAt are two clock reads; then the insert is awaited.            *)
FlatCreateThreadStart(p) ==
    /\ variant = "flat"
    /\ calls[p].pc = "idle"
    /\ Room
    /\ \E t1 \in clock..MaxClock : \E r \in 1..MaxRnd :
       \E t2 \in t1..MaxClock : \E t3 \in t2..MaxClock :
          /\ clock' = t3
          /\ Begin(p, [IdleCall EXCEPT !.op = "create", !.pc = "ins_thread",
                                       !.tid = FlatThreadId(t1, r), !.title = "a",
                                       !.ts = t2, !.ts2 = t3])
    /\ UNCHANGED <<variant, threads, messages, q>>

(* threads.insert_one executes; the welcome message is built: its id     *)
(* from one clock read, its createdAt from the next.                      *)
FlatCreateThreadInsert(p) ==
    /\ variant = "flat"
    /\ calls[p].op = "create"
    /\ calls[p].pc = "ins_thread"
    /\ LET c == calls[p] IN
          \/ /\ Step(p, Raise(c))
             /\ UNCHANGED <<clock, threads>>
          \/ /\ InsertAllowed(threads, c.tid)
             /\ threads' = threads \cup
                   {ThreadDoc(<<c.rid, "thread">>, c.tid, c.title, isoformat(c.ts), isoformat(c.ts2))}
             /\ \E t4 \in clock..MaxClock : \E t5 \in t4..MaxClock :
                   /\ clock' = t5
                   /\ Step(p, [c EXCEPT !.pc = "ins_welcome", !.ts = t5,
                                        !.uid = WelcomeId(c.tid, t4)])
    /\ UNCHANGED <<variant, messages, served, q>>

(* metadata of the welcome message: the flat route stores none, the      *)
(* layered service's dictionary carries {"type": "welcome"}              *)
WelcomeMeta == IF variant = "flat" THEN "none" ELSE "welcome"

(* messages.insert_one of the welcome message executes; the route        *)
(* returns {"id": thread_id}.                                             *)
CreateWelcomeInsert(p) ==
    /\ calls[p].op = "create"
    /\ calls[p].pc = "ins_welcome"
    /\ LET c == calls[p] IN
          \/ /\ Step(p, Raise(c))
             /\ UNCHANGED messages
          \/ /\ InsertAllowed(messages, c.uid)
             /\ messages' = messages \cup
                   {MessageDoc(<<c.rid, "welcome">>, c.uid, c.tid, "assistant",
                               isoformat(c.ts), WelcomeMeta)}
             /\ Step(p, [Finish(c, 200) EXCEPT !.atime = c.ts])
    /\ UNCHANGED <<variant, clock, threads, served, q>>

(* --------------- layered: POST /threads/{id}/messages ----------------- *)
(* routers send_message_to_thread (and the identical /messages/send):    *)
(* thread_repo.get_thread executes; a missing thread is 404; otherwise   *)
(* ChatService.send_message reads `now`, builds both ids and awaits the  *)
(* history.                                                               *)
AppSendStart(p, tid) ==
    /\ variant = "app"
    /\ calls[p].pc = "idle"
    /\ Room
    /\ LET c == [IdleCall EXCEPT !.op = "send", !.tid = tid] IN
          \/ /\ Begin(p, Raise(c))
             /\ UNCHANGED clock
          \/ /\ FindThread(threads, tid) = {}
             /\ Begin(p, Finish(c, 404))
             /\ UNCHANGED clock
          \/ /\ FindThread(threads, tid) # {}
             /\ \E now \in clock..MaxClock :
                   /\ clock' = now
                   /\ Begin(p, [c EXCEPT !.pc = "get_history",
                                         !.uid = AppUserId(now),
                                         !.aid = AppAssistantId(now)])
    /\ UNCHANGED <<variant, threads, messages, q>>

(* send_message going from the history read to the user insert, the AI  *)
(* responder not called                                                   *)
AppSendHistory_SkipAI(p) ==
    /\ variant = "app"
    /\ calls[p].op = "send"
    /\ calls[p].pc = "get_history"
    /\ Step(p, [calls[p] EXCEPT !.pc = "ins_user", !.ts = clock])
    /\ UNCHANGED <<variant, clock, threads, messages, served, q>>

(* ChatService._get_chat_history: message_repo.get_history executes with *)
(* the configured window; the AI responder is called next.               *)
AppSendHistory(p) ==
    /\ variant = "app"
    /\ calls[p].op = "send"
    /\ calls[p].pc = "get_history"
    /\ LET c == calls[p] IN
          \/ Step(p, Raise(c))
          \/ \E h \in get_history(messages, c.tid, max_history_messages) :
                Step(p, [c EXCEPT !.pc = "ai",
                                  !.hist = [i \in 1..Len(h) |-> h[i].id]])
    /\ UNCHANGED <<variant, clock, threads, messages, served, q>>

(* ai_service.process_message returns; create_message for the user       *)
(* message reads its `now` and awaits the insert.                         *)
AppSendAI(p) ==
    /\ variant = "app"
    /\ calls[p].op = "send"
    /\ calls[p].pc = "ai"
    /\ \E o \in AIOutcomes :
          LET c == calls[p]
              r == AppProcessMessage(o) IN
          IF r.raised
          THEN /\ Step(p, [Finish(c, 500) EXCEPT !.ai = r])
               /\ UNCHANGED clock
          ELSE \E now \in clock..MaxClock :
                  /\ clock' = now
                  /\ Step(p, [c EXCEPT !.pc = "ins_user", !.hist = <<>>, !.ai = r, !.ts = now])
    /\ UNCHANGED <<variant, threads, messages, served, q>>

(* the user insert behind a per-thread lock: it waits while another send *)
(* on the thread is between its two inserts                               *)
AppSendInsUser_Locked(p) ==
    /\ variant = "app"
    /\ calls[p].op = "send"
    /\ calls[p].pc = "ins_user"
    /\ LET c == calls[p] IN
          \/ /\ Step(p, Raise(c))
             /\ UNCHANGED <<clock, messages>>
          \/ /\ InsertAllowed(messages, c.uid)
             /\ \A r \in Procs \ {p} :
                   ~(calls[r].op = "send" /\ calls[r].tid = c.tid /\ calls[r].pc = "ins_assistant")
             /\ messages' = messages \cup
                   {MessageDoc(<<c.rid, "user">>, c.uid, c.tid, "user", isoformat(c.ts), "none")}
             /\ \E now \in clock..MaxClock :
                   /\ clock' = now
                   /\ Step(p, [c EXCEPT !.pc = "ins_assistant", !.utime = c.ts, !.ts = now])
    /\ UNCHANGED <<variant, threads, served, q>>

(* messages.insert_one of the user message executes; create_message for  *)
(* the assistant message reads its `now` and awaits the insert.          *)
AppSendInsUser(p) ==
    /\ variant = "app"
    /\ calls[p].op = "send"
    /\ calls[p].pc = "ins_user"
    /\ LET c == calls[p] IN
          \/ /\ Step(p, Raise(c))
             /\ UNCHANGED <<clock, messages>>
          \/ /\ InsertAllowed(messages, c.uid)
             /\ messages' = messages \cup
                   {MessageDoc(<<c.rid, "user">>, c.uid, c.tid, "user", isoformat(c.ts), "none")}
             /\ \E now \in clock..MaxClock :
                   /\ clock' = now
                   /\ Step(p, [c EXCEPT !.pc = "ins_assistant", !.utime = c.ts, !.ts = now])
    /\ UNCHANGED <<variant, threads, served, q>>

(* the assistant insert with a compensating delete: when it raises, the  *)
(* user message of the turn is removed again                              *)
AppSendInsAssistant_Rollback(p) ==
    /\ variant = "app"
    /\ calls[p].op = "send"
    /\ calls[p].pc = "ins_assistant"
    /\ LET c == calls[p] IN
          /\ Step(p, Raise(c))
          /\ messages' = {m \in messages : m.oid # <<c.rid, "user">>}
    /\ UNCHANGED <<variant, clock, threads, served, q>>

(* messages.insert_one of the assistant message executes;                *)
(* thread_repo.update_thread(thread_id, None) reads the clock and awaits *)
(* the update.                                                            *)
AppSendInsAssistant(p) ==
    /\ variant = "app"
    /\ calls[p].op = "send"
    /\ calls[p].pc = "ins_assistant"
    /\ LET c == calls[p] IN
          \/ /\ Step(p, Raise(c))
             /\ UNCHANGED <<clock, messages>>
          \/ /\ InsertAllowed(messages, c.aid)
             /\ messages' = messages \cup
                   {MessageDoc(<<c.rid, "assistant">>, c.aid, c.tid, "assistant",
                               isoformat(c.ts), "usage")}
             /\ \E now \in clock..MaxClock :
                   /\ clock' = now
                   /\ Step(p, [c EXCEPT !.pc = "touch", !.atime = c.ts, !.ts = now])
    /\ UNCHANGED <<variant, threads, served, q>>

(* the touch raising after its update_one has executed                   *)
AppSendTouch_Late(p) ==
    /\ variant = "app"
    /\ calls[p].op = "send"
    /\ calls[p].pc = "touch"
    /\ LET c == calls[p] IN
          /\ \E ths \in UpdateOne(threads, c.tid, c.ts, "none") : threads' = ths
          /\ Step(p, Raise(c)) \/ Step(p, Finish(c, 200))
    /\ UNCHANGED <<variant, clock, messages, served, q>>

(* threads.update_one executes; send_message returns its response.       *)
AppSendTouch(p) ==
    /\ variant = "app"
    /\ calls[p].op = "send"
    /\ calls[p].pc = "touch"
    /\ LET c == calls[p] IN
          \/ /\ Step(p, Raise(c))
             /\ UNCHANGED threads
          \/ /\ \E ths \in UpdateOne(threads, c.tid, c.ts, "none") : threads' = ths
             /\ Step(p, Finish(c, 200))
    /\ UNCHANGED <<variant, clock, messages, served, q>>

(* ----------------- flat: POST /threads/{id}/messages ------------------ *)
(* send_message: both ids from a clock read and random bytes each; the   *)
(* AI service is awaited at once (the thread is not looked up).          *)
FlatSendStart(p, tid) ==
    /\ variant = "flat"
    /\ calls[p].pc = "idle"
    /\ Room
    /\ \E t1 \in clock..MaxClock : \E r1 \in 1..MaxRnd :
       \E t2 \in t1..MaxClock : \E r2 \in 1..MaxRnd :
          /\ clock' = t2
          /\ Begin(p, [IdleCall EXCEPT !.op = "send", !.pc = "ai", !.tid = tid,
                                       !.uid = FlatMsgId(t1, "user", r1),
                                       !.aid = FlatMsgId(t2, "assistant", r2)])
    /\ UNCHANGED <<variant, threads, messages, q>>

(* AIService.process_message returns; the user message is built with    *)
(* its createdAt and the insert awaited.                                  *)
FlatSendAI(p) ==
    /\ variant = "flat"
    /\ calls[p].op = "send"
    /\ calls[p].pc = "ai"
    /\ \E o \in AIOutcomes :
          LET c == calls[p]
              r == FlatProcessMessage(o) IN
          IF r.raised
          THEN /\ Step(p, [Finish(c, 500) EXCEPT !.ai = r])
               /\ UNCHANGED clock
          ELSE \E now \in clock..MaxClock :
                  /\ clock' = now
                  /\ Step(p, [c EXCEPT !.pc = "ins_user", !.hist = <<>>, !.ai = r, !.ts = now])
    /\ UNCHANGED <<variant, threads, messages, served, q>>

FlatSendInsUser(p) ==
    /\ variant = "flat"
    /\ calls[p].op = "send"
    /\ calls[p].pc = "ins_user"
    /\ LET c == calls[p] IN
          \/ /\ Step(p, Raise(c))
             /\ UNCHANGED <<clock, messages>>
          \/ /\ InsertAllowed(messages, c.uid)
             /\ messages' = messages \cup
                   {MessageDoc(<<c.rid, "user">>, c.uid, c.tid, "user", isoformat(c.ts), "none")}
             /\ \E now \in clock..MaxClock :
                   /\ clock' = now
                   /\ Step(p, [c EXCEPT !.pc = "ins_assistant", !.utime = c.ts, !.ts = now])
    /\ UNCHANGED <<variant, threads, served, q>>

FlatSendInsAssistant(p) ==
    /\ variant = "flat"
    /\ calls[p].op = "send"
    /\ calls[p].pc = "ins_assistant"
    /\ LET c == calls[p] IN
          \/ /\ Step(p, Raise(c))
             /\ UNCHANGED <<clock, messages>>
          \/ /\ InsertAllowed(messages, c.aid)
             /\ messages' = messages \cup
                   {MessageDoc(<<c.rid, "assistant">>, c.aid, c.tid, "assistant",
                               isoformat(c.ts), "none")}
             /\ \E now \in clock..MaxClock :
                   /\ clock' = now
                   /\ Step(p, [c EXCEPT !.pc = "touch", !.atime = c.ts, !.ts = now])
    /\ UNCHANGED <<variant, threads, served, q>>

FlatSendTouch(p) ==
    /\ variant = "flat"
    /\ calls[p].op = "send"
    /\ calls[p].pc = "touch"
    /\ LET c == calls[p] IN
          \/ /\ Step(p, Raise(c))
             /\ UNCHANGED threads
          \/ /\ \E ths \in UpdateOne(threads, c.tid, c.ts, "none") : threads' = ths
             /\ Step(p, Finish(c, 200))
    /\ UNCHANGED <<variant, clock, messages, served, q>>

(* ---------------------- DELETE /threads/{id} -------------------------- *)
(* layered ThreadService.delete_thread: message_repo.delete_messages     *)
(* executes, then the thread's delete is awaited.                         *)
AppDeleteStart(p, tid) ==
    /\ variant = "app"
    /\ calls[p].pc = "idle"
    /\ Room
    /\ LET c == [IdleCall EXCEPT !.op = "delete", !.tid = tid] IN
          \/ /\ Begin(p, Raise(c))
             /\ UNCHANGED messages
          \/ /\ messages' = delete_messages(messages, tid)
             /\ Begin(p, [c EXCEPT !.pc = "del_thread"])
    /\ UNCHANGED <<variant, clock, threads, q>>

(* thread_repo.delete_thread executes: None (404) when nothing matched   *)
AppDeleteThread(p) ==
    /\ variant = "app"
    /\ calls[p].op = "delete"
    /\ calls[p].pc = "del_thread"
    /\ LET c == calls[p] IN
          \/ /\ Step(p, Raise(c))
             /\ UNCHANGED threads
          \/ /\ \E ths \in DeleteOne(threads, c.tid) : threads' = ths
             /\ Step(p, Finish(c, IF FindThread(threads, c.tid) = {} THEN 404 ELSE 200))
    /\ UNCHANGED <<variant, clock, messages, served, q>>

(* flat delete_thread: messages.delete_many, then threads.delete_one     *)
FlatDeleteStart(p, tid) ==
    /\ variant = "flat"
    /\ calls[p].pc = "idle"
    /\ Room
    /\ LET c == [IdleCall EXCEPT !.op = "delete", !.tid = tid] IN
          \/ /\ Begin(p, Raise(c))
             /\ UNCHANGED messages
          \/ /\ messages' = delete_messages(messages, tid)
             /\ Begin(p, [c EXCEPT !.pc = "del_thread"])
    /\ UNCHANGED <<variant, clock, threads, q>>

FlatDeleteThread(p) ==
    /\ variant = "flat"
    /\ calls[p].op = "delete"
    /\ calls[p].pc = "del_thread"
    /\ LET c == calls[p] IN
          \/ /\ Step(p, Raise(c))
             /\ UNCHANGED threads
          \/ /\ \E ths \in DeleteOne(threads, c.tid) : threads' = ths
             /\ Step(p, Finish(c, IF FindThread(threads, c.tid) = {} THEN 404 ELSE 200))
    /\ UNCHANGED <<variant, clock, messages, served, q>>

(* ----------------------- PUT /threads/{id} ---------------------------- *)
(* layered ThreadService.update_thread -> ThreadRepository.update_thread: *)
(* the clock is read into update_data, then update_one is awaited.        *)
AppUpdateStart(p, tid) ==
    /\ variant = "app"
    /\ calls[p].pc = "idle"
    /\ Room
    /\ \E now \in clock..MaxClock :
          /\ clock' = now
          /\ Begin(p, [IdleCall EXCEPT !.op = "update", !.pc = "upd", !.tid = tid,
                                       !.title = "b", !.ts = now])
    /\ UNCHANGED <<variant, threads, messages, q>>

(* update_one executes: matched_count decides between 200 and 404        *)
AppUpdateExec(p) ==
    /\ variant = "app"
    /\ calls[p].op = "update"
    /\ calls[p].pc = "upd"
    /\ LET c == calls[p] IN
          \/ /\ Step(p, Raise(c))
             /\ UNCHANGED threads
          \/ /\ \E ths \in UpdateOne(threads, c.tid, c.ts, c.title) : threads' = ths
             /\ Step(p, Finish(c, IF FindThread(threads, c.tid) = {} THEN 404 ELSE 200))
    /\ UNCHANGED <<variant, clock, messages, served, q>>

(* The response is sent; the process takes the next request.             *)
Reset(p) ==
    /\ calls[p].pc = "done"
    /\ Step(p, IdleCall)
    /\ UNCHANGED <<variant, clock, threads, messages, served, q>>

Next ==
    \E p \in Procs :
       \/ AppCreateThreadStart(p)
       \/ AppCreateThreadInsert(p)
       \/ FlatCreateThreadStart(p)
       \/ FlatCreateThreadInsert(p)
       \/ CreateWelcomeInsert(p)
       \/ \E tid \in KnownTids : AppSendStart(p, tid)
       \/ AppSendHistory(p)
       \/ AppSendAI(p)
       \/ AppSendInsUser(p)
       \/ AppSendInsAssistant(p)
       \/ AppSendTouch(p)
       \/ \E tid \in KnownTids : FlatSendStart(p, tid)
       \/ FlatSendAI(p)
       \/ FlatSendInsUser(p)
       \/ FlatSendInsAssistant(p)
       \/ FlatSendTouch(p)
       \/ \E tid \in KnownTids : AppDeleteStart(p, tid)
       \/ AppDeleteThread(p)
       \/ \E tid \in KnownTids : FlatDeleteStart(p, tid)
       \/ FlatDeleteThread(p)
       \/ \E tid \in KnownTids : AppUpdateStart(p, tid)
       \/ AppUpdateExec(p)
       \/ Reset(p)

Spec == Init /\ [][Next]_vars

(* ============================ properties ============================== *)
(* Process p holds a send-message call that returned 200 on a thread     *)
(* that was stored when the call started.                                 *)
SendReturned(p) ==
    /\ calls[p].op = "send"
    /\ calls[p].pc = "done"
    /\ calls[p].status = 200
    /\ calls[p].ex0

(* The call c inserted a user and an assistant message, in this order of *)
(* createdAt, and the thread's updatedAt is not before the assistant's.  *)
TurnTimes(c) ==
    /\ c.utime >= 0
    /\ c.atime >= 0
    /\ c.utime <= c.atime
    /\ \A t \in FindThread(threads, c.tid) : t.updatedAt >= c.atime

(* The thread of c holds exactly the two messages of c beyond those it   *)
(* held when c started, and the thread is stored with its updatedAt not  *)
(* before the assistant message's createdAt.                              *)
TurnStored(c) ==
    /\ count_messages(messages, c.tid) = c.n0 + 2
    /\ \E u, a \in ThreadMessages(messages, c.tid) :
          /\ u.oid = <<c.rid, "user">> /\ u.role = "user" /\ u.id = c.uid
          /\ a.oid = <<c.rid, "assistant">> /\ a.role = "assistant" /\ a.id = c.aid
          /\ u.createdAt <= a.createdAt
          /\ \E t \in FindThread(threads, c.tid) : t.updatedAt >= a.createdAt

(* C1 as stated: every send-message call on an existing thread that      *)
(* completes successfully has added a user and an assistant message with *)
(* the user's createdAt <= the assistant's, and after the call the       *)
(* thread's updatedAt is >= the assistant message's createdAt.           *)
C1_AsStated == \A p \in Procs : SendReturned(p) => TurnTimes(calls[p])

(* C1: a send-message call on an existing thread that completes          *)
(* successfully while no other request on that thread id is in flight    *)
(* leaves exactly two new messages in the thread, one user and one       *)
(* assistant, the user's createdAt <= the assistant's, and the thread's  *)
(* updatedAt >= the assistant message's createdAt.                       *)
C1_SendAddsTurn ==
    \A p \in Procs : (SendReturned(p) /\ ~calls[p].ovl) => TurnStored(calls[p])

C1_Witness ==
    \E p \in Procs :
       /\ SendReturned(p)
       /\ ~calls[p].ovl
       /\ calls[p].utime < calls[p].atime
       /\ TurnStored(calls[p])

(* C2: a send to a thread id that is not stored answers 404 and writes   *)
(* no message, through every entry point.                                 *)
C2_MissingThread404 ==
    \A p \in Procs :
       LET c == calls[p] IN
       (c.op = "send" /\ ~c.ex0 /\ ~c.dbErr) =>
          /\ c.pc = "done" => c.status = 404
          /\ c.utime = -1
          /\ c.atime = -1
          /\ ThreadMessages(messages, c.tid) = {}

(* The AI responder was unavailable in the call c: it raised, or it      *)
(* answered with a sentinel model name.                                   *)
AIUnavailable(c) == c.ai.raised \/ c.ai.model \in {"mock", "error"}

(* C3: a send-message call on an existing thread whose store operations  *)
(* all succeed returns success with both messages inserted also when the *)
(* AI provider is unconfigured, unreachable, answers a non-success       *)
(* status or a malformed body.                                            *)
C3_SendSurvivesAI ==
    \A p \in Procs :
       LET c == calls[p] IN
       (c.op = "send" /\ c.pc = "done" /\ c.ex0 /\ ~c.dbErr /\ AIUnavailable(c)) =>
          /\ c.status = 200
          /\ c.utime >= 0
          /\ c.atime >= 0

C3_Witness ==
    \E p \in Procs :
       /\ SendReturned(p)
       /\ calls[p].ai.content = "apology"
       /\ \E m \in messages : m.oid = <<calls[p].rid, "assistant">>

(* C7: after a delete-thread call on an existing thread has completed    *)
(* successfully, no message with that threadId is stored and the thread  *)
(* is not found.                                                          *)
C7_DeleteCascades ==
    \A p \in Procs :
       LET c == calls[p] IN
       (c.op = "delete" /\ c.pc = "done" /\ c.status = 200 /\ c.ex0) =>
          /\ ThreadMessages(messages, c.tid) = {}
          /\ count_messages(messages, c.tid) = 0
          /\ FindThread(threads, c.tid) = {}

(* C8: the thread ids create-thread generates are unique: no two create  *)
(* requests generate the same id, and none generates the id of a thread  *)
(* another request created.                                               *)
C8_ThreadIdsUnique ==
    \A p \in Procs :
       calls[p].op = "create" =>
          /\ calls[p].tid # NoId
          /\ \A r \in Procs \ {p} : calls[r].op = "create" => calls[r].tid # calls[p].tid
          /\ \A t \in threads : t.id = calls[p].tid => t.oid = <<calls[p].rid, "thread">>

(* C9: a thread fetched after its creation, before any other request     *)
(* names it, has createdAt = updatedAt, in every variant.                *)
C9_CreatedEqualsUpdated ==
    \A p \in Procs :
       (calls[p].op = "create" /\ ~calls[p].ovl) =>
          \A t \in threads : t.oid = <<calls[p].rid, "thread">> => t.createdAt = t.updatedAt

(* The messages the create-thread call c stored for its thread           *)
WelcomeOf(c) == {m \in messages : m.threadId = c.tid /\ m.oid[1] = c.rid}

(* C10: every create-thread request whose store operations succeed       *)
(* returns the thread id having stored exactly one message for the       *)
(* thread, with role assistant and metadata.type = "welcome", without a  *)
(* call of the AI responder.                                              *)
C10_WelcomeCreated ==
    \A p \in Procs :
       LET c == calls[p] IN
       (c.op = "create" /\ c.pc = "done" /\ ~c.dbErr /\ ~c.ovl) =>
          /\ c.status = 200
          /\ c.ai = NoAI
          /\ Cardinality(WelcomeOf(c)) = 1
          /\ \A m \in WelcomeOf(c) : m.role = "assistant" /\ m.meta = "welcome"

(* C12: in every reachable state every stored thread has                 *)
(* updatedAt >= createdAt.                                                *)
C12_UpdatedNotBeforeCreated == \A t \in threads : t.updatedAt >= t.createdAt

(* No stored thread document has its updatedAt moved backwards by this   *)
(* step.                                                                  *)
NoStepBack == \A t \in threads : \A u \in threads' : u.oid = t.oid => u.updatedAt >= t.updatedAt

(* C13 as stated: for every interleaving of sends and title edits, the   *)
(* updatedAt a thread holds after an operation is >= every value it held *)
(* before.                                                                *)
C13_AsStated == [][NoStepBack]_vars

(* Process p's send or title edit executes its update of the thread in   *)
(* this step, and no other request on the thread id has been in flight   *)
(* since p's request started.                                             *)
AloneUpdates(p) ==
    /\ calls[p].pc \in {"touch", "upd"}
    /\ calls'[p].pc = "done"
    /\ ~calls'[p].ovl

(* C13: for every thread and every sequence of sends and title edits on  *)
(* it in which no two requests on the thread are in flight together, the *)
(* updatedAt stored after an operation completes is >= every value it    *)
(* held before.                                                           *)
C13_UpdatedAtMonotone == [][\A p \in Procs : AloneUpdates(p) => NoStepBack]_vars

C13_Witness ==
    \E p \in Procs :
       /\ calls[p].op \in {"send", "update"}
       /\ calls[p].pc = "done"
       /\ calls[p].status = 200
       /\ ~calls[p].ovl
       /\ \E t \in FindThread(threads, calls[p].tid) : t.updatedAt > t.createdAt

(* The order of the steps of ChatService.send_message                    *)
SendOrder ==
    {<<"get_history", "ai">>, <<"ai", "ins_user">>, <<"ins_user", "ins_assistant">>,
     <<"ins_assistant", "touch">>, <<"touch", "done">>}

(* The documents the call c inserts                                       *)
UserDocOf(c) == {m \in messages' : m.oid = <<c.rid, "user">>}

AssistantDocOf(c) == {m \in messages' : m.oid = <<c.rid, "assistant">>}

(* C17: within one ChatService.send_message call the steps happen in     *)
(* this order: the history read completes before the AI responder is     *)
(* called, the AI call returns before any message is written, the user   *)
(* message is inserted before the assistant message, and the thread is   *)
(* touched only after both inserts; a failing step ends the call.        *)
C17_StepsInOrder ==
    [][\A p \in Procs :
          (variant = "app" /\ calls[p].op = "send" /\ InFlight(calls[p])
             /\ calls'[p].pc # calls[p].pc) =>
          LET c == calls[p]
              d == calls'[p] IN
          /\ <<c.pc, d.pc>> \in SendOrder \/ (d.pc = "done" /\ d.status = 500)
          /\ c.pc = "get_history" => d.ai = NoAI
          /\ c.pc \in {"get_history", "ai"} => messages' = messages /\ c.utime = -1 /\ c.atime = -1
          /\ messages' # messages =>
                \/ c.pc = "ins_user" /\ messages' \ messages = UserDocOf(c) /\ c.atime = -1
                \/ c.pc = "ins_assistant" /\ messages' \ messages = AssistantDocOf(c) /\ c.utime >= 0
          /\ threads' # threads => c.pc = "touch" /\ c.utime >= 0 /\ c.atime >= 0]_vars

C17_Witness ==
    \E p \in Procs :
       /\ variant = "app"
       /\ SendReturned(p)
       /\ calls[p].ai # NoAI
       /\ calls[p].utime >= 0
       /\ calls[p].atime >= 0
       /\ \E t \in FindThread(threads, calls[p].tid) : t.updatedAt >= calls[p].atime

(* Process r's pending user-message insert executes.                     *)
InsertsUserMessage(r) == AppSendInsUser(r) /\ calls'[r].pc = "ins_assistant"

C19_AssistantInsertFails ==
    [][\A p \in Procs :
          LET c == calls[p]
              d == calls'[p] IN
          /\ (c.op = "send" /\ c.pc = "ins_assistant" /\ d.pc = "done") =>
                /\ d.status = 500
                /\ d.utime >= 0 /\ d.atime = -1
                /\ messages' = messages
                /\ threads' = threads
                /\ ~d.ovl => UserDocOf(d) # {}
          /\ (d.op = "send" /\ d.pc = "done" /\ d.utime >= 0 /\ d.atime = -1) =>
                /\ d.status = 500
                /\ AssistantDocOf(d) = {}]_vars

C19_Witness ==
    \E p \in Procs :
       LET c == calls[p] IN
       /\ c.op = "send" /\ c.pc = "done" /\ c.status = 500
       /\ c.utime >= 0 /\ c.atime = -1
       /\ \E m \in messages : m.oid = <<c.rid, "user">>
       /\ \A m \in messages : m.oid # <<c.rid, "assistant">>
       /\ FindThread(threads, c.tid) # {}

(* C20: in a send whose two inserts succeeded and whose thread touch     *)
(* fails, both messages remain stored unchanged, the thread's updatedAt  *)
(* keeps its earlier value, and the caller receives 500, not the ids.    *)
C20_TouchFails ==
    [][\A p \in Procs :
          LET c == calls[p]
              d == calls'[p] IN
          /\ (c.op = "send" /\ c.pc = "touch" /\ d.pc = "done" /\ d.dbErr) =>
                /\ d.status = 500
                /\ d.utime >= 0 /\ d.atime >= 0
                /\ messages' = messages
                /\ threads' = threads
                /\ ~d.ovl => UserDocOf(d) # {} /\ AssistantDocOf(d) # {}
          /\ (d.op = "send" /\ d.pc = "done" /\ d.atime >= 0 /\ d.status = 200) => ~d.dbErr]_vars

C20_Witness ==
    \E p \in Procs :
       LET c == calls[p] IN
       /\ c.op = "send" /\ c.pc = "done" /\ c.status = 500 /\ c.dbErr
       /\ c.utime >= 0 /\ c.atime >= 0
       /\ \E u, a \in messages : u.oid = <<c.rid, "user">> /\ a.oid = <<c.rid, "assistant">>
       /\ \E t \in FindThread(threads, c.tid) : t.updatedAt < isoformat(c.atime)

(* C21: in every reachable state no two messages of the same thread have *)
(* the same createdAt: createdAt is a total order on a thread's          *)
(* messages, for the pair of one send, the welcome message and the       *)
(* messages of concurrent sends.                                          *)
C21_CreatedAtTotalOrder ==
    \A m1, m2 \in messages :
       (m1.threadId = m2.threadId /\ m1.oid # m2.oid) => m1.createdAt # m2.createdAt

(* C22: a stored message is never updated and is removed only by the     *)
(* cascade delete of its own thread: a message that a step takes out of  *)
(* the collection is gone, not rewritten, and the step is the            *)
(* delete_messages of a delete-thread request that names its threadId.   *)
C22_MessagesImmutable ==
    [][\A m \in messages :
          m \notin messages' =>
             /\ \A x \in messages' : x.oid # m.oid
             /\ \E p \in Procs :
                   /\ calls[p].pc = "idle"
                   /\ calls'[p].op = "delete"
                   /\ calls'[p].tid = m.threadId]_vars

(* A delete of one thread id ran while messages of another were stored,  *)
(* and a later delete found those messages and removed them.             *)
C22_Witness ==
    \E p, r \in Procs :
       /\ calls[p].op = "delete" /\ calls[r].op = "delete"
       /\ calls[r].tid # calls[p].tid
       /\ calls[r].rid < calls[p].rid
       /\ ~calls[r].dbErr
       /\ calls[p].n0 > 0
       /\ calls[p].pc = "done" /\ calls[p].status = 200
       /\ ThreadMessages(messages, calls[p].tid) = {}

(* C23: in every reachable state every stored message's threadId is the  *)
(* id of a stored thread, for every interleaving of send-message and     *)
(* delete-thread calls on the same thread.                                *)
C23_MessagesHaveThread == \A m \in messages : FindThread(threads, m.threadId) # {}

(* C26: the two message ids one ChatService.send_message generates are   *)
(* distinct, the ids of two distinct sends are distinct (also when both  *)
(* read the same clock value), no stored message carries the id of       *)
(* another send's message, and no two stored messages share an id.       *)
C26_MessageIdsUnique ==
    variant = "app" =>
       /\ \A p \in Procs :
             (calls[p].op = "send" /\ calls[p].uid # NoId) =>
                /\ calls[p].uid # calls[p].aid
                /\ \A r \in Procs \ {p} :
                      calls[r].op = "send" =>
                         {calls[r].uid, calls[r].aid} \cap {calls[p].uid, calls[p].aid} = {}
                /\ \A m \in messages :
                      m.id \in {calls[p].uid, calls[p].aid} => m.oid[1] = calls[p].rid
       /\ \A m1, m2 \in messages : m1.oid # m2.oid => m1.id # m2.id

(* C28: a delete-thread call for an id that names no stored thread       *)
(* reports 404 and leaves both collections unchanged: it removes no      *)
(* message, also none that carries the id as threadId.                   *)
C28_DeleteMissingIsNoOp ==
    [][\A p \in Procs :
          LET c == calls[p]
              d == calls'[p] IN
          /\ (c.pc = "idle" /\ d.op = "delete" /\ FindThread(threads, d.tid) = {}) =>
                messages' = messages /\ threads' = threads
          /\ (c.op = "delete" /\ c.pc = "del_thread" /\ ~c.ex0 /\ ~d.ovl /\ d.pc = "done") =>
                /\ d.dbErr \/ d.status = 404
                /\ messages' = messages /\ threads' = threads]_vars

(* C29: a create-thread request that reports failure (500) leaves no new *)
(* thread stored: either the thread and its welcome message are both     *)
(* stored and the id is returned, or neither is stored.                  *)
C29_CreateAllOrNothing ==
    \A p \in Procs :
       LET c == calls[p] IN
       (c.op = "create" /\ c.pc = "done" /\ ~c.ovl) =>
          /\ c.status = 500 =>
                /\ \A t \in threads : t.oid # <<c.rid, "thread">>
                /\ \A m \in messages : m.oid[1] # c.rid
          /\ c.status = 200 =>
                /\ \E t \in threads : t.oid = <<c.rid, "thread">>
                /\ \E m \in messages : m.oid = <<c.rid, "welcome">>

(* C30: the history window a send reads (ChatService._get_chat_history)  *)
(* holds at most max_history_messages messages, all of the send's own    *)
(* thread, all stored before the read, and never the send's own user or  *)
(* assistant message, neither of which is inserted yet.                  *)
C30_WindowOfSend ==
    [][\A p \in Procs :
          LET c == calls[p]
              d == calls'[p] IN
          (c.op = "send" /\ c.pc = "get_history" /\ d.pc = "ai") =>
             /\ Len(d.hist) <= max_history_messages
             /\ Len(d.hist) = Min(max_history_messages, count_messages(messages, c.tid))
             /\ \A i \in 1..Len(d.hist) :
                   \E m \in ThreadMessages(messages, c.tid) :
                      m.id = d.hist[i] /\ m.oid[1] # c.rid
             /\ c.utime = -1 /\ c.atime = -1
             /\ \A m \in messages : m.oid[1] # c.rid]_vars

(* Two concurrent sends on one thread have both read a non-empty window  *)
(* while neither has inserted a message: neither window holds a message  *)
(* of either send.                                                        *)
C30_Witness ==
    \E p, r \in Procs :
       /\ p # r
       /\ calls[p].op = "send" /\ calls[r].op = "send"
       /\ calls[p].tid = calls[r].tid
       /\ calls[p].pc = "ai" /\ calls[r].pc = "ai"
       /\ Len(calls[p].hist) > 0 /\ Len(calls[r].hist) > 0
       /\ \A m \in messages : m.oid[1] \notin {calls[p].rid, calls[r].rid}

(* ================== sends whose provider call may hang ================= *)
(* The outbound call of a send is one that never returns: layered, the   *)
(* awaited self._chain.ainvoke; flat, the awaited client.post.           *)
AIHangs(p) ==
    /\ calls[p].op = "send"
    /\ calls[p].pc = "ai"
    /\ Step(p, [calls[p] EXCEPT !.pc = "ai_hung"])
    /\ UNCHANGED <<variant, clock, threads, messages, served, q>>

(* flat process_message: client.post(..., timeout=30.0) raises the       *)
(* timeout, the except clause answers with model "error", and the route  *)
(* goes on to the user insert.  The layered process_message awaits the   *)
(* chain without a bound: it has no such step.                            *)
FlatAITimeout(p) ==
    /\ variant = "flat"
    /\ calls[p].op = "send"
    /\ calls[p].pc = "ai_hung"
    /\ \E now \in clock..MaxClock :
          /\ clock' = now
          /\ Step(p, [calls[p] EXCEPT !.pc = "ins_user", !.ai = FlatProcessMessage("timeout"),
                                      !.ts = now])
    /\ UNCHANGED <<variant, threads, messages, served, q>>

(* A store that holds one thread; two requests are still to be served in *)
(* the layered deployment, one in the flat deployment.                    *)
LiveInit ==
    /\ variant \in {"app", "flat"}
    /\ clock = 0
    /\ threads = {ThreadDoc(<<0, "thread">>, AppThreadId(0, 0), "a", isoformat(0), isoformat(0))}
    /\ messages = {}
    /\ served = IF variant = "app" THEN MaxRequests - 2 ELSE MaxFlatRequests - 1
    /\ calls = [p \in Procs |-> IdleCall]
    /\ q = NoQuery

(* The steps of a send past its start                                     *)
SendProgress(p) ==
    \/ AppSendHistory(p)
    \/ AppSendAI(p)
    \/ AppSendInsUser(p)
    \/ AppSendInsAssistant(p)
    \/ AppSendTouch(p)
    \/ FlatSendAI(p)
    \/ FlatAITimeout(p)
    \/ FlatSendInsUser(p)
    \/ FlatSendInsAssistant(p)
    \/ FlatSendTouch(p)

LiveNext ==
    \E p \in Procs :
       \/ \E tid \in KnownTids : AppSendStart(p, tid)
       \/ \E tid \in KnownTids : FlatSendStart(p, tid)
       \/ AIHangs(p)
       \/ SendProgress(p)
       \/ Reset(p)

(* Every awaited store operation and every provider call that returns    *)
(* does so eventually; a timer that is set fires.                         *)
LiveSpec == LiveInit /\ [][LiveNext]_vars /\ \A p \in Procs : WF_vars(SendProgress(p))

(* C27: if the outbound AI call never returns, the AI responder's        *)
(* timeout fires and process_message returns a degraded response, so     *)
(* every send-message call eventually completes (given that the store    *)
(* operations complete).                                                  *)
C27_SendCompletes ==
    \A p \in Procs :
       (calls[p].op = "send" /\ InFlight(calls[p])) ~> (calls[p].pc = "done")

(* ====================== the read side: queries ======================== *)
(* The queries are functions of the stored documents.  They are checked  *)
(* over every store of up to MaxQMsgs messages in two threads, createdAt *)
(* drawn from 0..MaxQClock (equal values included: two create_message    *)
(* calls that read the same clock value).  One query is answered per    *)
(* behaviour; q holds its arguments and its answer.                       *)
QTids == {<<"thread", 0, 0>>, <<"thread", 0, 1>>}

QRole(i) == IF i % 2 = 1 THEN "user" ELSE "assistant"

QMsg(i, tid, t) ==
    MessageDoc(<<i, QRole(i)>>, <<"msg", 0, QRole(i), i>>, tid, QRole(i), isoformat(t), "none")

QInit ==
    /\ variant = "app"
    /\ clock = MaxQClock
    /\ \E n \in 0..MaxQMsgs : \E f \in [1..n -> QTids \X (0..MaxQClock)] :
       \E u \in [QTids -> 0..MaxQClock] :
          /\ n > 1 => \A tid \in QTids : u[tid] = 0
          /\ threads = {ThreadDoc(<<tid[3], "thread">>, tid, "a", isoformat(0), isoformat(u[tid])) :
                           tid \in QTids}
          /\ messages = {QMsg(i, f[i][1], f[i][2]) : i \in 1..n}
    /\ served = 0
    /\ calls = [p \in Procs |-> IdleCall]
    /\ q = NoQuery

Answer(op, tid, limit, status, out) ==
    [NoQuery EXCEPT !.op = op, !.tid = tid, !.limit = limit, !.status = status, !.out = out]

(* MessageRepository.get_history(tid, limit) is called and returns       *)
QGetHistory(tid, limit) ==
    /\ q = NoQuery
    /\ \E h \in get_history(messages, tid, limit) :
          q' = Answer("get_history", tid, limit, 200, h)
    /\ UNCHANGED <<variant, clock, threads, messages, served, calls>>

(* GET /threads/{id}/history?limit=N: router get_conversation_history -> *)
(* MessageService.get_conversation_history; None (no thread) is 404      *)
QGetConversationHistory(tid, limit) ==
    /\ q = NoQuery
    /\ IF FindThread(threads, tid) = {}
       THEN q' = Answer("conversation_history", tid, limit, 404, <<>>)
       ELSE \E h \in get_conversation_history(messages, tid, limit) :
               q' = Answer("conversation_history", tid, limit, 200, h)
    /\ UNCHANGED <<variant, clock, threads, messages, served, calls>>

(* MessageRepository.get_messages called three times on the same store:  *)
(* the pages (0, K) and (K, K), and the page (0, 2K)                      *)
QGetMessagesPages(tid, k) ==
    /\ q = NoQuery
    /\ \E a \in get_messages(messages, tid, 0, k) :
       \E b \in get_messages(messages, tid, k, k) :
       \E ab \in get_messages(messages, tid, 0, 2 * k) :
          q' = [Answer("get_messages", tid, k, 200, ab) EXCEPT !.p1 = a, !.p2 = b]
    /\ UNCHANGED <<variant, clock, threads, messages, served, calls>>

(* ThreadRepository.get_threads called three times on the same store:   *)
(* the pages (0, K) and (K, K), and the page (0, 2K)                      *)
QGetThreadsPages(k) ==
    /\ q = NoQuery
    /\ \E a \in get_threads(threads, 0, k) :
       \E b \in get_threads(threads, k, k) :
       \E ab \in get_threads(threads, 0, 2 * k) :
          q' = [Answer("get_threads", NoId, k, 200, ab) EXCEPT !.p1 = a, !.p2 = b]
    /\ UNCHANGED <<variant, clock, threads, messages, served, calls>>

(* ThreadRepository.update_thread(tid, None) is called: it reads the     *)
(* clock, update_one executes, and it returns matched_count > 0          *)
QUpdateThread(tid) ==
    /\ q = NoQuery
    /\ \E now \in clock..(clock + 1) : \E r \in update_thread(threads, tid, now, "none") :
          /\ clock' = now
          /\ threads' = r.threads
          /\ q' = [Answer("update_thread", tid, 0, 200, <<>>) EXCEPT !.matched = r.matched]
    /\ UNCHANGED <<variant, messages, served, calls>>

(* get_history(tid, N) and get_messages(tid, 0, N) on the same store     *)
QHistoryAndList(tid, limit) ==
    /\ q = NoQuery
    /\ \E h \in get_history(messages, tid, limit) :
       \E l \in get_messages(messages, tid, 0, limit) :
          q' = [Answer("history_list", tid, limit, 200, h) EXCEPT !.p1 = l]
    /\ UNCHANGED <<variant, clock, threads, messages, served, calls>>

(* What get_db() evaluates to where it is called without await: get_db   *)
(* is a coroutine function, so the call yields a coroutine object, not   *)
(* the database.                                                          *)
SyncGetDb == "coroutine"

(* MongoChatMessageHistory._load_messages for the session tid: every     *)
(* message of the thread in ascending createdAt; any exception (here the *)
(* attribute lookup db.messages) leaves the empty history.               *)
load_messages(msgs, tid) ==
    IF SyncGetDb = "database"
    THEN {[i \in 1..Len(s) |-> s[i].id] : s \in SortByCreatedAt(ThreadMessages(msgs, tid), 1)}
    ELSE {<<>>}

(* The messages RunnableWithMessageHistory hands to the model in         *)
(* AIService.process_message(content, thread_id, history): the system    *)
(* prompt, the session history of get_session_history(thread_id), the    *)
(* human input.  The chain is invoked with the input and the session id; *)
(* the parameter history is not passed on.                                *)
chain_context(msgs, tid, history) ==
    {<<(<<"system">>)>> \o h \o <<(<<"input">>)>> : h \in load_messages(msgs, tid)}

(* A send with a configured provider reaches the AI call: the            *)
(* orchestrator's window is fetched (ChatService._get_chat_history) and  *)
(* process_message composes the model's context.                          *)
QChainContext(tid) ==
    /\ q = NoQuery
    /\ FindThread(threads, tid) # {}
    /\ \E h \in get_history(messages, tid, max_history_messages) :
       LET history == [i \in 1..Len(h) |-> h[i].id] IN
       \E ctx \in chain_context(messages, tid, history) :
          q' = [Answer("chain_context", tid, max_history_messages, 200, ctx) EXCEPT !.p1 = history]
    /\ UNCHANGED <<variant, clock, threads, messages, served, calls>>

(* ------------------- layered routers: route boundary ----------------- *)
(* The handlers of routers/threads.py and routers/messages.py            *)
Handlers ==
    {"create_thread", "get_all_threads", "get_thread", "update_thread", "delete_thread",
     "send_message_to_thread", "get_conversation_history", "get_thread_messages",
     "send_message", "get_messages"}

(* The action named in a handler's "Failed to <action>: <error>"         *)
ActionOf(h) ==
    CASE h = "create_thread" -> "create thread"
      [] h = "get_all_threads" -> "get threads"
      [] h = "get_thread" -> "get thread"
      [] h = "update_thread" -> "update thread"
      [] h = "delete_thread" -> "delete thread"
      [] h \in {"send_message_to_thread", "send_message"} -> "send message"
      [] h = "get_conversation_history" -> "get conversation history"
      [] h \in {"get_thread_messages", "get_messages"} -> "get messages"

(* The handlers whose body raises HTTPException(404, "Thread not found") *)
RaisesNotFound(h) == h \notin {"create_thread", "get_all_threads"}

(* The handlers with the clause `except HTTPException: raise` ahead of   *)
(* `except Exception`                                                     *)
Reraises(h) == h \notin {"create_thread", "get_all_threads"}

(* a try block with the single clause `except Exception`                 *)
route_boundary_CatchAll(h, exc) ==
    IF exc = "none" THEN [status |-> 200, detail |-> <<>>]
    ELSE [status |-> 500,
          detail |-> <<"Failed to", ActionOf(h),
                       IF exc = "HTTPException" THEN "404: Thread not found" ELSE "error">>]

(* The try/except around the body of handler h: what the client receives *)
(* when the body returns ("none"), raises the 404 HTTPException, or      *)
(* raises any other exception, whose text is "error".                    *)
route_boundary(h, exc) ==
    IF exc = "none" THEN [status |-> 200, detail |-> <<>>]
    ELSE IF exc = "HTTPException" /\ Reraises(h)
         THEN [status |-> 404, detail |-> <<"Thread not found">>]
         ELSE [status |-> 500,
               detail |-> <<"Failed to", ActionOf(h),
                            IF exc = "HTTPException" THEN "404: Thread not found" ELSE "error">>]

(* The body of handler h ends as exc and the route boundary answers.     *)
QRouteBoundary(h, exc) ==
    /\ q = NoQuery
    /\ exc = "HTTPException" => RaisesNotFound(h)
    /\ LET r == route_boundary(h, exc) IN
          q' = [Answer("route_boundary", NoId, 0, r.status, r.detail) EXCEPT !.arg = <<h, exc>>]
    /\ UNCHANGED <<variant, clock, threads, messages, served, calls>>

(* process_message of the deployment dep is called while the provider    *)
(* behaves as o                                                           *)
QProcessMessage(dep, o) ==
    /\ q = NoQuery
    /\ q' = [Answer("process_message", NoId, 0, 200, <<>>) EXCEPT
                !.arg = <<dep, o>>,
                !.ai = IF dep = "app" THEN AppProcessMessage(o) ELSE FlatProcessMessage(o)]
    /\ UNCHANGED <<variant, clock, threads, messages, served, calls>>

QNext ==
    \/ \E h \in Handlers : \E exc \in {"none", "HTTPException", "Exception"} : QRouteBoundary(h, exc)
    \/ \E dep \in {"app", "flat"} : \E o \in AIOutcomes : QProcessMessage(dep, o)
    \/ \E tid \in QTids \cup {MissingTid} : \E n \in 1..MaxLimit :
       \/ QGetHistory(tid, n)
       \/ QGetConversationHistory(tid, n)
       \/ QGetMessagesPages(tid, n)
       \/ QGetThreadsPages(n)
       \/ QUpdateThread(tid)
       \/ QHistoryAndList(tid, n)
       \/ QChainContext(tid)

QSpec == QInit /\ [][QNext]_vars

(* ---------------------- properties of the queries --------------------- *)
Ids(out) == {out[i].id : i \in 1..Len(out)}

Ascending(out) == \A i \in 1..(Len(out) - 1) : out[i].createdAt <= out[i + 1].createdAt

(* out is the n most recent messages of S in chronological order: it has *)
(* min(n, |S|) distinct messages of S, ascending in createdAt, and no    *)
(* message left out is more recent than one returned.                    *)
MostRecent(out, S, n) ==
    /\ Len(out) = Min(n, Cardinality(S))
    /\ Cardinality(Ids(out)) = Len(out)
    /\ \A i \in 1..Len(out) : \E m \in S : m.id = out[i].id /\ m.createdAt = out[i].createdAt
    /\ Ascending(out)
    /\ \A m \in S : m.id \notin Ids(out) =>
          \A i \in 1..Len(out) : m.createdAt <= out[i].createdAt

(* C4: MessageRepository.get_history(tid, N) returns min(N, count)       *)
(* messages, those with the greatest createdAt, in ascending createdAt   *)
(* order; with more than N stored, never an earlier one in place of a    *)
(* more recent one.                                                       *)
C4_HistoryMostRecent ==
    q.op = "get_history" => MostRecent(q.out, ThreadMessages(messages, q.tid), q.limit)

C4_Witness ==
    /\ q.op = "get_history"
    /\ count_messages(messages, q.tid) > q.limit
    /\ \E m \in ThreadMessages(messages, q.tid) :
          /\ m.id \notin Ids(q.out)
          /\ \A i \in 1..Len(q.out) : m.createdAt < q.out[i].createdAt

(* C5: GET /threads/{id}/history?limit=N on a stored thread returns the  *)
(* N most recent messages of the thread in chronological order.          *)
C5_HistoryEndpointMostRecent ==
    (q.op = "conversation_history" /\ q.status = 200) =>
        MostRecent(q.out, ThreadMessages(messages, q.tid), q.limit)

(* C6: the pages (skip 0, limit K) and (skip K, limit K) of get_messages *)
(* are disjoint, each ascending in createdAt, and their concatenation is *)
(* the page (skip 0, limit 2K).                                           *)
C6_PagesCompose ==
    q.op = "get_messages" =>
        /\ Ids(q.p1) \cap Ids(q.p2) = {}
        /\ Ascending(q.p1)
        /\ Ascending(q.p2)
        /\ q.p1 \o q.p2 = q.out

(* C11: ThreadRepository.update_thread(id, None) on a stored thread sets *)
(* its updatedAt to the current time and leaves its title, createdAt and *)
(* id, every other thread and every message unchanged; it returns true   *)
(* iff a thread with that id is stored.                                   *)
C11_UpdateThreadFrame ==
    [][q'.op = "update_thread" =>
          /\ q'.matched = (FindThread(threads, q'.tid) # {})
          /\ messages' = messages
          /\ Cardinality(threads') = Cardinality(threads)
          /\ \A t \in threads : t.id # q'.tid => t \in threads'
          /\ \A t \in FindThread(threads, q'.tid) :
                \E u \in threads' :
                   /\ u.oid = t.oid /\ u.id = t.id
                   /\ u.title = t.title /\ u.createdAt = t.createdAt
                   /\ u.updatedAt = isoformat(clock')]_vars

C11_Witness ==
    /\ q.op = "update_thread"
    /\ q.matched
    /\ messages # {}
    /\ \E t \in FindThread(threads, q.tid) : t.updatedAt = isoformat(clock) /\ t.updatedAt > t.createdAt
    /\ \E t \in threads : t.id # q.tid

(* C14: over an unchanged thread set the pages (skip 0, limit K) and     *)
(* (skip K, limit K) of get_threads are disjoint, newest-updated first,  *)
(* and their concatenation is the page (skip 0, limit 2K), also when     *)
(* threads share an updatedAt.                                            *)
C14_ThreadPagesCompose ==
    q.op = "get_threads" =>
        /\ Ids(q.p1) \cap Ids(q.p2) = {}
        /\ \A i \in 1..(Len(q.out) - 1) : q.out[i].updatedAt >= q.out[i + 1].updatedAt
        /\ q.p1 \o q.p2 = q.out

(* C15: with no credential or with a transport error during the call,    *)
(* process_message of either deployment does not raise and returns a     *)
(* response with non-empty content, model "mock" or "error" and          *)
(* usage.total_tokens >= 0.                                               *)
C15_DegradedResponse ==
    (q.op = "process_message" /\ q.arg[2] \in {"no_key", "transport"}) =>
        /\ ~q.ai.raised
        /\ q.ai.content # ""
        /\ Words(q.ai.content) # <<>>
        /\ q.ai.model \in {"mock", "error"}
        /\ q.ai.total_tokens >= 0

C15_Witness ==
    /\ q.op = "process_message"
    /\ q.arg = <<"app", "transport">>
    /\ q.ai.content = "apology"
    /\ q.ai.total_tokens > 0

(* a and b hold the same messages, in the same order up to the order of  *)
(* messages with equal createdAt.                                         *)
SameUpToTies(a, b) ==
    /\ Len(a) = Len(b)
    /\ Ids(a) = Ids(b)
    /\ \A i \in 1..Len(a) : a[i].createdAt = b[i].createdAt

(* C16 as stated: for every thread content and every N >= 1,             *)
(* get_history(tid, N) and get_messages(tid, 0, N) return the same       *)
(* multiset of messages, differing at most in the order of messages with *)
(* equal createdAt.                                                       *)
C16_AsStated == q.op = "history_list" => SameUpToTies(q.out, q.p1)

(* C16: for every thread holding at most N messages, get_history(tid, N) *)
(* and get_messages(tid, 0, N) return the same multiset of messages,     *)
(* differing at most in the order of messages with equal createdAt.      *)
C16_HistoryEqualsList ==
    (q.op = "history_list" /\ count_messages(messages, q.tid) <= q.limit) =>
        SameUpToTies(q.out, q.p1)

C16_Witness ==
    /\ q.op = "history_list"
    /\ count_messages(messages, q.tid) = 2
    /\ q.limit = 2
    /\ q.out # q.p1
    /\ SameUpToTies(q.out, q.p1)

(* C24: on every send with a configured provider the context given to   *)
(* the model is the fixed system prompt, then exactly the bounded        *)
(* history window the orchestrator fetched (the most recent              *)
(* max_history_messages messages of the thread, oldest first), then the  *)
(* new user content.                                                      *)
C24_ContextIsWindow ==
    q.op = "chain_context" => q.out = <<(<<"system">>)>> \o q.p1 \o <<(<<"input">>)>>

(* C25: at the route boundary of the layered routers every exception    *)
(* other than an HTTP error raised inside a handler becomes a 500 with   *)
(* detail "Failed to <action>: <error>", and a 404 "Thread not found"    *)
(* raised inside the handler reaches the client as 404, never as 500.    *)
C25_RouteBoundary ==
    q.op = "route_boundary" =>
        /\ q.arg[2] = "Exception" =>
              q.status = 500 /\ q.out = <<"Failed to", ActionOf(q.arg[1]), "error">>
        /\ q.arg[2] = "HTTPException" =>
              q.status = 404 /\ q.out = <<"Thread not found">>

C25_Witness ==
    /\ q.op = "route_boundary"
    /\ q.arg = <<"send_message_to_thread", "HTTPException">>
    /\ q.status = 404

====
